---- MODULE Spec2Model ----
(***************************************************************************)
(* Model of DataParser (src/src/DataParser.cpp): the telemetry packet      *)
(* decoder of the CanSat ground station.  A packet is a byte buffer,       *)
(* modelled as a sequence of one-character strings.  The decoder keeps the *)
(* last decoded packet in m_data, a vector of QVariant.                    *)
(***************************************************************************)
EXTENDS Integers, Sequences, FiniteSets, TLC

(***************************************************************************)
(* Bounds of the model.                                                    *)
(***************************************************************************)
\* Frames are built with kChecksumCode - MaxDelta .. kChecksumCode + 1 + MaxDelta tokens.
MaxDelta == 1
\* Values 0 .. MaxGarbage stand for what a read of memory the program does
\* not own may return.
MaxGarbage == 1

(***************************************************************************)
(* Constants.h: wire-format constants and the order of the fields.         *)
(***************************************************************************)
HEADER_CODE == <<"H", "D">>
EOT_SECONDARY == <<"$">>
DATA_SEPARATOR == ","

kHeader == 0
kTeamID == 1
kPacketCount == 2
kMisionTime == 3
kAltitude == 4
kBatteryVoltage == 5
kRelativeHumidity == 6
kUvRadiationIndex == 7
kInternalTemp == 8
kExternalTemp == 9
kAtmPressure == 10
kGpsTime == 11
kGpsAltitude == 12
kGpsVelocity == 13
kGpsLatitude == 14
kGpsLongitude == 15
kGpsSatelliteCount == 16
kAccelerometerX == 17
kAccelerometerY == 18
kAccelerometerZ == 19
kGyroscopeX == 20
kGyroscopeY == 21
kGyroscopeZ == 22
kChecksumCode == 23

\* The members of the enumeration, in order; the last one is the checksum.
FieldIndex == kHeader .. kChecksumCode

(***************************************************************************)
(* Bytes and strings (QByteArray, QString).                                *)
(***************************************************************************)
Digits == <<"0", "1", "2", "3", "4", "5", "6", "7", "8", "9">>

IsDigit(c) == \E d \in 1..10 : Digits[d] = c

DigitVal(c) == (CHOOSE d \in 1..10 : Digits[d] = c) - 1

\* Latin-1 code of a character.
Ord(c) ==
    IF IsDigit(c) THEN 48 + DigitVal(c)
    ELSE CASE c = "$" -> 36
           [] c = "," -> 44
           [] c = "-" -> 45
           [] c = "." -> 46
           [] c = "D" -> 68
           [] c = "H" -> 72
           [] c = "X" -> 88
           [] OTHER -> 63

startsWith(s, p) == Len(p) <= Len(s) /\ SubSeq(s, 1, Len(p)) = p

endsWith(s, p) == Len(p) <= Len(s) /\ SubSeq(s, Len(s) - Len(p) + 1, Len(s)) = p

\* QString::chop(n): removes n characters from the end.
chop(s, n) == IF n >= Len(s) THEN <<>> ELSE SubSeq(s, 1, Len(s) - n)

\* QString::indexOf(sep, i): the first position from i on that holds sep, or
\* 0 when there is none (positions count from 1 here).
RECURSIVE indexOf(_, _, _)
indexOf(s, sep, i) ==
    IF i > Len(s) THEN 0
    ELSE IF s[i] = sep THEN i
    ELSE indexOf(s, sep, i + 1)

\* QString::split(sep), empty parts kept: one token more than there are
\* separators.  The token being read begins at position start.
RECURSIVE splitFrom(_, _, _)
splitFrom(s, sep, start) ==
    LET i == indexOf(s, sep, start)
    IN  IF i = 0 THEN <<SubSeq(s, start, Len(s))>>
        ELSE <<SubSeq(s, start, i - 1)>> \o splitFrom(s, sep, i + 1)

split(s, sep) == splitFrom(s, sep, 1)

(***************************************************************************)
(* Unsigned 32-bit numbers (quint32, uint) are kept as <<high, low>>, the  *)
(* two 16-bit halves, so that the whole range 0 .. 2^32 - 1 is covered.    *)
(***************************************************************************)
U32(n) == <<n \div 65536, n % 65536>>

U32Less(a, b) == a[1] < b[1] \/ (a[1] = b[1] /\ a[2] < b[2])

(***************************************************************************)
(* Text to number conversions of QString.  A conversion that fails returns *)
(* 0.  A double or float is kept in tenths (one decimal digit).            *)
(***************************************************************************)
AllDigits(s) == Len(s) > 0 /\ \A i \in 1..Len(s) : IsDigit(s[i])

\* Value of a short digit string.
RECURSIVE Decimal(_)
Decimal(s) ==
    IF s = <<>> THEN 0
    ELSE 10 * Decimal(SubSeq(s, 1, Len(s) - 1)) + DigitVal(s[Len(s)])

\* Digit by digit accumulation in 32 bits; <<>> when the value passes 2^32 - 1.
RECURSIVE Accumulate(_, _)
Accumulate(acc, s) ==
    IF s = <<>> \/ acc = <<>> THEN acc
    ELSE LET low  == 10 * acc[2] + DigitVal(Head(s))
             high == 10 * acc[1] + (low \div 65536)
         IN  Accumulate(IF high >= 65536 THEN <<>> ELSE <<high, low % 65536>>,
                        Tail(s))

\* QString::toUInt: 0 unless the text is a decimal number below 2^32.
StrToUInt(s) ==
    IF AllDigits(s) /\ Accumulate(U32(0), s) # <<>>
    THEN Accumulate(U32(0), s) ELSE U32(0)

\* QString::toInt: an optional sign, then digits; 0 outside 32 bits.
StrToInt(s) ==
    LET neg  == s # <<>> /\ s[1] = "-"
        body == IF neg THEN Tail(s) ELSE s
        mag  == IF AllDigits(body) THEN Accumulate(U32(0), body) ELSE <<>>
    IN  IF mag = <<>> \/ mag[1] >= 32768 THEN 0
        ELSE IF neg THEN 0 - (65536 * mag[1] + mag[2])
        ELSE 65536 * mag[1] + mag[2]

\* QString::toDouble (and toFloat), in tenths: digits, then optionally a
\* point and more digits.
StrToDouble(s) ==
    LET neg  == s # <<>> /\ s[1] = "-"
        body == IF neg THEN Tail(s) ELSE s
        parts == split(body, ".")
        ok == /\ Len(parts) \in {1, 2}
              /\ AllDigits(parts[1])
              /\ Len(parts[1]) <= 6
              /\ Len(parts) = 2 => AllDigits(parts[2])
        tenths == 10 * Decimal(parts[1])
                    + (IF Len(parts) = 2 THEN DigitVal(parts[2][1]) ELSE 0)
    IN  IF ok THEN (IF neg THEN 0 - tenths ELSE tenths) ELSE 0

\* QString::number(u): the decimal text of an unsigned 32-bit number.
RECURSIVE UIntText(_)
UIntText(u) ==
    LET rest == (u[1] % 10) * 65536 + u[2]
        quot == <<u[1] \div 10, rest \div 10>>
        last == <<Digits[(rest % 10) + 1]>>
    IN  IF quot = <<0, 0>> THEN last
        ELSE UIntText(<<quot[1] + (quot[2] \div 65536), quot[2] % 65536>>) \o last

(***************************************************************************)
(* crc32.h: the CRC-32 of a buffer (reflected polynomial EDB88320).        *)
(***************************************************************************)
RECURSIVE XorBits(_, _)
XorBits(a, b) ==
    IF a = 0 THEN b
    ELSE IF b = 0 THEN a
    ELSE ((a + b) % 2) + 2 * XorBits(a \div 2, b \div 2)

\* Exclusive or of two 4-bit numbers, tabulated.
XorTable == [a \in 0..15 |-> [b \in 0..15 |-> XorBits(a, b)]]

\* Exclusive or of two 16-bit numbers.
Xor(a, b) ==
    4096 * XorTable[a \div 4096][b \div 4096]
      + 256 * XorTable[(a \div 256) % 16][(b \div 256) % 16]
      + 16 * XorTable[(a \div 16) % 16][(b \div 16) % 16]
      + XorTable[a % 16][b % 16]

Xor32(a, b) == <<Xor(a[1], b[1]), Xor(a[2], b[2])>>

ShiftRight(c, bits) ==
    LET m == 2 ^ bits
    IN  <<c[1] \div m, (c[1] % m) * (65536 \div m) + (c[2] \div m)>>

RECURSIVE CrcShift(_, _)
CrcShift(c, k) ==
    IF k = 0 THEN c
    ELSE CrcShift(IF c[2] % 2 = 1 THEN Xor32(ShiftRight(c, 1), <<60856, 33568>>)
                  ELSE ShiftRight(c, 1),
                  k - 1)

CrcTable == [n \in 0..255 |-> CrcShift(<<0, n>>, 8)]

\* One byte more in the running CRC.
CrcByte(crc, byte) ==
    Xor32(CrcTable[Xor(crc[2] % 256, byte)], ShiftRight(crc, 8))

\* The running CRC after the bytes from position i on, four bytes a turn.
RECURSIVE CrcUpdate(_, _, _)
CrcUpdate(crc, bytes, i) ==
    IF i > Len(bytes) \/ crc = <<>> THEN crc
    ELSE IF i + 3 <= Len(bytes)
         THEN CrcUpdate(CrcByte(CrcByte(CrcByte(CrcByte(crc, Ord(bytes[i])),
                                                Ord(bytes[i + 1])),
                                        Ord(bytes[i + 2])),
                                Ord(bytes[i + 3])),
                        bytes, i + 4)
         ELSE CrcUpdate(CrcByte(crc, Ord(bytes[i])), bytes, i + 1)

CRC32(bytes) == Xor32(CrcUpdate(<<65535, 65535>>, bytes, 1), <<65535, 65535>>)

(***************************************************************************)
(* QVariant: a tagged value.  i holds an int, or a double/float in tenths; *)
(* u holds an unsigned 32-bit number; s holds a string.                    *)
(***************************************************************************)
QInt(n)    == [type |-> "int",    i |-> n, u |-> U32(0), s |-> <<>>]
QUInt(n)   == [type |-> "uint",   i |-> 0, u |-> n,      s |-> <<>>]
QDouble(t) == [type |-> "double", i |-> t, u |-> U32(0), s |-> <<>>]
QFloat(t)  == [type |-> "float",  i |-> t, u |-> U32(0), s |-> <<>>]
QStr(t)    == [type |-> "string", i |-> 0, u |-> U32(0), s |-> t]

\* QVariant::toInt
VarToInt(v) ==
    CASE v.type = "int" -> v.i
      [] v.type = "uint" -> IF v.u[1] < 32768 THEN 65536 * v.u[1] + v.u[2]
                            ELSE 65536 * (v.u[1] - 65536) + v.u[2]
      [] v.type = "string" -> StrToInt(v.s)
      [] OTHER -> IF v.i >= 0 THEN (v.i + 5) \div 10 ELSE 0 - ((5 - v.i) \div 10)

\* QVariant::toUInt
VarToUInt(v) ==
    CASE v.type = "uint" -> v.u
      [] v.type = "int" -> IF v.i >= 0 THEN U32(v.i)
                           ELSE <<65535 - ((0 - v.i - 1) \div 65536),
                                  65535 - ((0 - v.i - 1) % 65536)>>
      [] v.type = "string" -> StrToUInt(v.s)
      [] OTHER -> IF v.i >= 0 THEN U32((v.i + 5) \div 10) ELSE U32(0)

\* QVariant::toDouble and QVariant::toFloat, in tenths.
VarToDouble(v) ==
    CASE v.type = "int" -> 10 * v.i
      [] v.type = "uint" -> IF v.u[1] < 3000 THEN 10 * (65536 * v.u[1] + v.u[2])
                            ELSE 2147483647
      [] v.type = "string" -> StrToDouble(v.s)
      [] OTHER -> v.i

\* QVector::insert(i, value): the elements from position i on move up by one.
insert(vec, i, value) ==
    SubSeq(vec, 1, i) \o <<value>> \o SubSeq(vec, i + 1, Len(vec))

\* QVector::at(i), for i within the vector (positions count from 0).
at(vec, i) == vec[i + 1]

(***************************************************************************)
(* EmptyDataPacket(): kChecksumCode variants holding 0.                    *)
(***************************************************************************)
EmptyDataPacket == [n \in 1..kChecksumCode |-> QInt(0)]

(***************************************************************************)
(* The state of the program.                                               *)
(***************************************************************************)
VARIABLES
    m_crc32,             \* DataParser::m_crc32
    m_data,              \* DataParser::m_data, the current reading
    m_csvLoggingEnabled, \* DataParser::m_csvLoggingEnabled
    crashed,             \* the process was ended by the run-time
    before,              \* m_data as it was when the last call began
    lastOp,              \* the member function called last
    lastPacket,          \* the packet, when the last call was parsePacket
    signals,             \* the signals emitted by the last call, in order
    reads,               \* the token positions the last call read with at()
    ret,                 \* what the last call returned
    arg,                 \* the argument of the last call to enableCsvLogging
    crcInput,            \* rp, the text the last parsePacket re-constructed
    observed             \* m_data as it was at each emit of the last call

vars == <<m_crc32, m_data, m_csvLoggingEnabled, crashed, before, lastOp,
          lastPacket, signals, reads, ret, arg, crcInput, observed>>

(***************************************************************************)
(* Accessors (DataParser.cpp lines 60-150) on a reading d.                 *)
(***************************************************************************)
teamId(d) == VarToInt(at(d, kTeamID))
packetCount(d) == VarToInt(at(d, kPacketCount))
missionTime(d) == VarToUInt(at(d, kMisionTime))
altitude(d) == VarToDouble(at(d, kAltitude))
batteryVoltage(d) == VarToDouble(at(d, kBatteryVoltage))
internalTemperature(d) == VarToDouble(at(d, kInternalTemp))
externalTemperature(d) == VarToDouble(at(d, kExternalTemp))
atmosphericPressure(d) == VarToDouble(at(d, kAtmPressure))
gpsVelocity(d) == VarToDouble(at(d, kGpsVelocity))
gpsAltitude(d) == VarToDouble(at(d, kGpsAltitude))
gpsLatitude(d) == VarToDouble(at(d, kGpsLatitude))
gpsLongitude(d) == VarToDouble(at(d, kGpsLongitude))
gpsSatelliteCount(d) == VarToInt(at(d, kGpsSatelliteCount))
gyroscopeData(d) ==
    <<VarToDouble(at(d, kGyroscopeX)), VarToDouble(at(d, kGyroscopeY)),
      VarToDouble(at(d, kGyroscopeZ))>>
accelerometerData(d) ==
    <<VarToDouble(at(d, kAccelerometerX)), VarToDouble(at(d, kAccelerometerY)),
      VarToDouble(at(d, kAccelerometerZ))>>

(***************************************************************************)
(* The packets the serial manager delivers in the model.                   *)
(***************************************************************************)
Text(n) == UIntText(U32(n))

MissionTimes == {Text(1000), Text(500)}

\* <<GPS altitude, GPS velocity, GPS latitude>>
GpsReadings == {<<Text(0), Text(0), Text(0)>>,
                <<<<"2", ".", "5">>, Text(7), <<"1", ".", "5">>>>}

\* The tokens of the fields before the checksum, in the order of FieldIndex.
Payload(time, gps) ==
    <<HEADER_CODE, Text(1), Text(5), time, <<"1", "0", "0", ".", "5">>,
      <<"7", ".", "4">>, Text(0), Text(0), Text(0), Text(0), Text(0), Text(0),
      gps[1], gps[2], gps[3], Text(0), Text(8), Text(0), Text(0), Text(0),
      Text(0), Text(0), Text(0)>>

RECURSIVE WithSeparators(_)
WithSeparators(tokens) ==
    IF tokens = <<>> THEN <<>>
    ELSE Head(tokens) \o <<DATA_SEPARATOR>> \o WithSeparators(Tail(tokens))

\* The checksum the sender appends: the decimal CRC-32 of the preceding
\* tokens, each followed by the separator.
SenderChecksum(payload) == UIntText(CRC32(WithSeparators(payload)))

AlteredChecksum(payload) ==
    LET c == CRC32(WithSeparators(payload))
    IN  UIntText(IF c[2] < 65535 THEN <<c[1], c[2] + 1>> ELSE <<c[1], c[2] - 1>>)

ChecksumTokens(payload) ==
    {SenderChecksum(payload), AlteredChecksum(payload), <<"X">>}

\* A frame: the tokens joined by the separator, then the secondary EOT.
Frame(tokens) == chop(WithSeparators(tokens), 1) \o EOT_SECONDARY

\* The frame the wire format describes: one token per member of FieldIndex.
ValidFrame(time, gps) ==
    Frame(Payload(time, gps) \o <<SenderChecksum(Payload(time, gps))>>)

ValidFrames == {ValidFrame(time, gps) : time \in MissionTimes, gps \in GpsReadings}

\* Frames of n tokens: the first n of payload, checksum and padding.  The
\* frames of every member of FieldIndex come with each kind of checksum.
FramesOfCount(n) ==
    UNION { { Frame(SubSeq(Payload(time, gps) \o <<c>>
                               \o [k \in 1..MaxDelta |-> Text(0)], 1, n))
              : c \in IF n = kChecksumCode + 1
                      THEN ChecksumTokens(Payload(time, gps))
                      ELSE {SenderChecksum(Payload(time, gps))} }
            : time \in MissionTimes, gps \in GpsReadings }

WellFramed ==
    UNION {FramesOfCount(n) :
               n \in (kChecksumCode - MaxDelta) .. (kChecksumCode + 1 + MaxDelta)}

\* Frames without the trailer, and frames with another first byte.
Untrailed ==
    {chop(f, 1) : f \in {Frame(Payload(Text(1000), gps)) : gps \in GpsReadings}
                          \cup {ValidFrame(Text(1000), gps) : gps \in GpsReadings}}

Unheaded ==
    {<<"X">> \o Tail(f) : f \in {Frame(Payload(Text(1000), gps)) : gps \in GpsReadings}
                          \cup {ValidFrame(Text(1000), gps) : gps \in GpsReadings}}

\* A frame of kChecksumCode tokens whose last token is no number.
Unparseable == {Frame(SubSeq(Payload(Text(1000), gps), 1, kChecksumCode - 1) \o <<<<"X">>>>)
                  : gps \in {<<Text(0), Text(0), Text(0)>>}}

\* 4294967296, the first mission time that needs more than 32 bits.
WideTime == <<"4", "2", "9", "4", "9", "6", "7", "2", "9", "6">>

\* Frames with that mission time, without and with the checksum token.
WideTimed ==
    UNION {{Frame(Payload(WideTime, gps)), ValidFrame(WideTime, gps)}
             : gps \in {<<Text(0), Text(0), Text(0)>>}}

Packets ==
    {<<>>} \cup WellFramed \cup Untrailed \cup Unheaded \cup Unparseable \cup WideTimed

(***************************************************************************)
(* parsePacket, stage by stage.                                            *)
(***************************************************************************)
\* Raw packet validation: empty, no header code, no secondary EOT code.
FrameError_NoTrailerCheck(packet) ==
    \/ packet = <<>>
    \/ ~startsWith(packet, HEADER_CODE)

FrameError(packet) ==
    \/ packet = <<>>
    \/ ~startsWith(packet, HEADER_CODE)
    \/ ~endsWith(packet, EOT_SECONDARY)

\* The copy without the secondary EOT character, split on the separator.
Tokenize(packet) == split(chop(packet, 1), DATA_SEPARATOR)

\* data.count() != EmptyDataPacket().count()
CountError_AtLeast(data) == Len(data) < Len(EmptyDataPacket)

CountError(data) == Len(data) # Len(EmptyDataPacket)

\* The packet re-constructed without the element at kChecksumCode: the loop
\* runs over the positions 0 .. EmptyDataPacket().size() - 1.
RECURSIVE ReconstructFrom(_, _)
ReconstructFrom(data, i) ==
    IF i >= Len(EmptyDataPacket) THEN <<>>
    ELSE (IF i # kChecksumCode THEN at(data, i) \o <<DATA_SEPARATOR>> ELSE <<>>)
         \o ReconstructFrom(data, i + 1)

Reconstruct(data) == ReconstructFrom(data, 0)

\* The positions of data the CRC stage reads: the loop reads every position
\* but kChecksumCode, the comparison reads kChecksumCode.
CrcReads == ((0 .. (Len(EmptyDataPacket) - 1)) \ {kChecksumCode}) \cup {kChecksumCode}

\* What memory past the end of a list may hold when read as a token.
StaleTokens == {UIntText(U32(g)) : g \in 0..MaxGarbage}

\* data.at(i): the token at position i.  For a position past the end the read
\* is outside the list: the run-time ends the process (ok = FALSE) or the
\* read returns what lies there.
DataAt(data, i) ==
    IF i < Len(data) THEN {[ok |-> TRUE, tok |-> at(data, i)]}
    ELSE {[ok |-> FALSE, tok |-> <<>>]}
         \cup {[ok |-> TRUE, tok |-> t] : t \in StaleTokens}

\* The variant built from the token of field i.
Coerce(i, tok) ==
    CASE i \in {kHeader, kGpsSatelliteCount} -> QStr(tok)
      [] i \in {kTeamID, kPacketCount} -> QInt(StrToInt(tok))
      [] i \in {kMisionTime, kGpsTime, kChecksumCode} -> QUInt(StrToUInt(tok))
      [] i \in {kAccelerometerX, kAccelerometerY, kAccelerometerZ,
                kGyroscopeX, kGyroscopeY, kGyroscopeZ} -> QFloat(StrToDouble(tok))
      [] OTHER -> QDouble(StrToDouble(tok))

\* The fields in the order of the info.insert calls.
InsertOrder ==
    <<kHeader, kTeamID, kPacketCount, kMisionTime, kAltitude, kBatteryVoltage,
      kRelativeHumidity, kUvRadiationIndex, kInternalTemp, kExternalTemp,
      kAtmPressure, kGpsTime, kGpsAltitude, kGpsVelocity, kGpsAltitude,
      kGpsLatitude, kGpsLongitude, kGpsSatelliteCount, kAccelerometerX,
      kAccelerometerY, kAccelerometerZ, kGyroscopeX, kGyroscopeY, kGyroscopeZ,
      kChecksumCode>>

\* info after the first k insert calls; cks is the token data.at(kChecksumCode)
\* returned.
RECURSIVE InfoAfter(_, _, _)
InfoAfter(data, cks, k) ==
    IF k = 0 THEN EmptyDataPacket
    ELSE LET i == InsertOrder[k]
             tok == IF i = kChecksumCode THEN cks ELSE at(data, i)
         IN  insert(InfoAfter(data, cks, k - 1), i, Coerce(i, tok))

ExtractInfo(data, cks) == InfoAfter(data, cks, Len(InsertOrder))

\* The stages that depend on the packet alone, evaluated once for each packet
\* of the model: the tokens of a packet, the token lists that pass the length
\* check, their re-constructed text, its CRC-32 and their info vector.
TokensOf == [p \in Packets |-> IF FrameError(p) THEN <<>> ELSE Tokenize(p)]

Counted == {d \in {TokensOf[p] : p \in Packets} : ~CountError(d)}

RpOf == [d \in Counted |-> Reconstruct(d)]

Crc32Of == [rp \in {RpOf[d] : d \in Counted} |-> CRC32(rp)]

InfoOf ==
    [d \in Counted |->
        [cks \in {r.tok : r \in {q \in DataAt(d, kChecksumCode) : q.ok}} |->
            ExtractInfo(d, cks)]]

\* CRC32(buffer, buffer_size): buffer points into the std::string temporary of
\* rp.toStdString(), which is destroyed before the call.  The bytes read are
\* those of rp, or whatever the freed memory holds by then.
LocalCrc32(rp) == {Crc32Of[rp]} \cup {U32(g) : g \in 0..MaxGarbage}

\* missionTime() > info.at(kMisionTime).toUInt()
ResetDetected_OrEqual(cur, info) ==
    ~U32Less(missionTime(cur), VarToUInt(at(info, kMisionTime)))

ResetDetected(cur, info) ==
    U32Less(VarToUInt(at(info, kMisionTime)), missionTime(cur))

\* The ways one call may end: the signals emitted, the reading left in m_data,
\* the positions read, and whether the process was ended.
Outcome(sigs, d, rd, dead) == [signals |-> sigs, data |-> d, reads |-> rd, crashed |-> dead]

\* emit packetError(); return;
Abort_ClearsReading(cur, rd) == Outcome(<<"packetError">>, EmptyDataPacket, rd, FALSE)

Abort(cur, rd) == Outcome(<<"packetError">>, cur, rd, FALSE)

\* The read outside the list ends the process: nothing more is emitted.
Crash(cur, rd) == Outcome(<<>>, cur, rd, TRUE)

\* Data handling: the packet information vector, the reset check, the update.
DataHandling(cur, data) ==
    { IF ~r.ok THEN Crash(cur, CrcReads \cup FieldIndex)
      ELSE LET info == InfoOf[data][r.tok]
           IN  Outcome((IF ResetDetected(cur, info) THEN <<"satelliteReset">> ELSE <<>>)
                          \o <<"dataParsed">>,
                       info, CrcReads \cup FieldIndex, FALSE)
      : r \in DataAt(data, kChecksumCode) }

\* CRC-32 validation, then data handling when the two codes agree.
CrcValidation(cur, data) ==
    UNION { UNION { IF ~r.ok THEN {Crash(cur, CrcReads)}
                    ELSE IF localCrc32 # StrToUInt(r.tok)
                         THEN {Abort(cur, CrcReads)}
                    ELSE handled
                    : localCrc32 \in LocalCrc32(rp),
                      r \in DataAt(data, kChecksumCode) }
            : rp \in {RpOf[data]}, handled \in {DataHandling(cur, data)} }

ParseOutcomes(cur, packet) ==
    IF FrameError(packet) THEN {Abort(cur, {})}
    ELSE UNION { IF CountError(data)
                 THEN {Abort(cur, {})}
                 ELSE CrcValidation(cur, data)
                 : data \in {TokensOf[packet]} }

(***************************************************************************)
(* Construction and the callable operations.                               *)
(***************************************************************************)
Init ==
    /\ m_crc32 = 0
    /\ m_data = EmptyDataPacket
    /\ m_csvLoggingEnabled = FALSE
    /\ crashed = FALSE
    /\ before = EmptyDataPacket
    /\ lastOp = "DataParser"
    /\ lastPacket = <<>>
    /\ signals = <<>>
    /\ reads = {}
    /\ ret = <<>>
    /\ arg = <<>>
    /\ crcInput = <<>>
    /\ observed = <<>>

\* The slot connected to dataParsed: with logging enabled it does nothing yet.
saveCsvData_Clears(csv, d) == IF csv THEN EmptyDataPacket ELSE d

saveCsvData(csv, d) == IF csv THEN d ELSE d

\* m_data as a slot sees it at each emit: satelliteReset and packetError are
\* emitted before the assignment to m_data, dataParsed after it.
Observed(cur, o) ==
    [k \in 1..Len(o.signals) |-> IF o.signals[k] = "dataParsed" THEN o.data ELSE cur]

\* What one call does to the parser under the logging flag csv: the outcome
\* of the stages, then the slot of dataParsed.
DecodeResults(cur, packet, csv) ==
    { [data |-> IF \E k \in 1..Len(o.signals) : o.signals[k] = "dataParsed"
                THEN saveCsvData(csv, o.data) ELSE o.data,
       signals |-> o.signals, reads |-> o.reads, crashed |-> o.crashed,
       observed |-> Observed(cur, o)]
      : o \in ParseOutcomes(cur, packet) }

parsePacket(packet) ==
    /\ ~crashed
    /\ \E o \in DecodeResults(m_data, packet, m_csvLoggingEnabled) :
          /\ m_data' = o.data
          /\ signals' = o.signals
          /\ reads' = o.reads
          /\ crashed' = o.crashed
          /\ observed' = o.observed
    /\ crcInput' = IF FrameError(packet) THEN <<>>
                   ELSE IF CountError(TokensOf[packet]) THEN <<>>
                   ELSE RpOf[TokensOf[packet]]
    /\ before' = m_data
    /\ lastOp' = "parsePacket"
    /\ lastPacket' = packet
    /\ ret' = <<>>
    /\ arg' = <<>>
    /\ UNCHANGED <<m_crc32, m_csvLoggingEnabled>>

enableCsvLogging(enabled) ==
    /\ ~crashed
    /\ m_csvLoggingEnabled' = enabled
    /\ signals' = <<"csvLoggingEnabledChanged">>
    /\ before' = m_data
    /\ lastOp' = "enableCsvLogging"
    /\ lastPacket' = <<>>
    /\ reads' = {}
    /\ ret' = <<>>
    /\ arg' = <<enabled>>
    /\ crcInput' = <<>>
    /\ observed' = <<m_data>>
    /\ UNCHANGED <<m_crc32, m_data, crashed>>

\* The accessors whose slot lies within every reading.
Accessors ==
    {"teamId", "packetCount", "missionTime", "altitude", "batteryVoltage",
     "internalTemperature", "externalTemperature", "atmosphericPressure",
     "gpsVelocity", "gpsAltitude", "gpsLatitude", "gpsLongitude",
     "gpsSatelliteCount", "gyroscopeData", "accelerometerData",
     "csvLoggingEnabled"}

AccessorValue(name, d, csv) ==
    CASE name = "teamId" -> <<QInt(teamId(d))>>
      [] name = "packetCount" -> <<QInt(packetCount(d))>>
      [] name = "missionTime" -> <<QUInt(missionTime(d))>>
      [] name = "altitude" -> <<QDouble(altitude(d))>>
      [] name = "batteryVoltage" -> <<QDouble(batteryVoltage(d))>>
      [] name = "internalTemperature" -> <<QDouble(internalTemperature(d))>>
      [] name = "externalTemperature" -> <<QDouble(externalTemperature(d))>>
      [] name = "atmosphericPressure" -> <<QDouble(atmosphericPressure(d))>>
      [] name = "gpsVelocity" -> <<QDouble(gpsVelocity(d))>>
      [] name = "gpsAltitude" -> <<QDouble(gpsAltitude(d))>>
      [] name = "gpsLatitude" -> <<QDouble(gpsLatitude(d))>>
      [] name = "gpsLongitude" -> <<QDouble(gpsLongitude(d))>>
      [] name = "gpsSatelliteCount" -> <<QInt(gpsSatelliteCount(d))>>
      [] name = "gyroscopeData" -> [k \in 1..3 |-> QFloat(gyroscopeData(d)[k])]
      [] name = "accelerometerData" -> [k \in 1..3 |-> QFloat(accelerometerData(d)[k])]
      [] OTHER -> <<QInt(IF csv THEN 1 ELSE 0)>>

accessor(name) ==
    /\ ~crashed
    /\ ret' = AccessorValue(name, m_data, m_csvLoggingEnabled)
    /\ before' = m_data
    /\ lastOp' = name
    /\ lastPacket' = <<>>
    /\ signals' = <<>>
    /\ reads' = {}
    /\ arg' = <<>>
    /\ crcInput' = <<>>
    /\ observed' = <<>>
    /\ UNCHANGED <<m_crc32, m_data, m_csvLoggingEnabled, crashed>>

\* checksum(): m_data.at(kChecksumCode).  A reading of kChecksumCode slots has
\* no such slot: the run-time ends the process or the read returns what lies
\* past the vector.
checksum ==
    /\ ~crashed
    /\ before' = m_data
    /\ lastOp' = "checksum"
    /\ lastPacket' = <<>>
    /\ signals' = <<>>
    /\ reads' = {}
    /\ arg' = <<>>
    /\ crcInput' = <<>>
    /\ observed' = <<>>
    /\ IF kChecksumCode < Len(m_data)
       THEN ret' = <<QUInt(VarToUInt(at(m_data, kChecksumCode)))>> /\ crashed' = FALSE
       ELSE \/ ret' = <<>> /\ crashed' = TRUE
            \/ \E g \in 0..MaxGarbage : ret' = <<QUInt(U32(g))>> /\ crashed' = FALSE
    /\ UNCHANGED <<m_crc32, m_data, m_csvLoggingEnabled>>

Next ==
    \/ \E packet \in Packets : parsePacket(packet)
    \/ \E enabled \in BOOLEAN : enableCsvLogging(enabled)
    \/ \E name \in Accessors : accessor(name)
    \/ checksum

Spec == Init /\ [][Next]_vars

(***************************************************************************)
(* Vocabulary of the properties.                                           *)
(***************************************************************************)
Decoding == lastOp = "parsePacket"

Emitted(sig) == \E k \in 1..Len(signals) : signals[k] = sig

\* Empty, wrong header or wrong trailer.
FailsFrameValidation(p) ==
    \/ Len(p) = 0
    \/ Len(p) < Len(HEADER_CODE)
    \/ \E k \in 1..Len(HEADER_CODE) : k <= Len(p) /\ p[k] # HEADER_CODE[k]
    \/ p[Len(p)] # EOT_SECONDARY[1]

\* The tokens of a well-framed packet: one more than the separators before
\* the trailer.
NumberOfTokens(p) == Cardinality({k \in 1..(Len(p) - 1) : p[k] = DATA_SEPARATOR}) + 1

\* The last token of a frame is not the CRC-32 of the tokens before it, each
\* followed by the separator.
ChecksumTokenWrong(p) ==
    \E data \in {Tokenize(p)} :
        StrToUInt(data[Len(data)])
          # CRC32(WithSeparators(SubSeq(data, 1, Len(data) - 1)))

\* The mission time token of a frame, as a number.
FrameTime(p) == StrToUInt(at(Tokenize(p), kMisionTime))

(***************************************************************************)
(* C1.  A packet that is empty, does not begin with HEADER_CODE or does    *)
(* not end with the secondary EOT makes parsePacket emit packetError and   *)
(* nothing else, and leaves the current reading as it was.                 *)
(***************************************************************************)
C1_FrameErrorKeepsReading ==
    (Decoding /\ FailsFrameValidation(lastPacket))
        => (signals = <<"packetError">> /\ m_data = before /\ ~crashed)

\* A packet with the header and without the trailer was rejected while a
\* decoded reading was held.
C1_Witness ==
    /\ Decoding
    /\ startsWith(lastPacket, HEADER_CODE)
    /\ ~endsWith(lastPacket, EOT_SECONDARY)
    /\ signals = <<"packetError">>
    /\ m_data # EmptyDataPacket

(***************************************************************************)
(* C2.  A well-framed packet whose token count is not 23 makes parsePacket *)
(* emit packetError and leaves the reading untouched; no token has been    *)
(* read by position at that point.                                         *)
(***************************************************************************)
C2_FieldCountErrorKeepsReading ==
    (Decoding /\ ~FailsFrameValidation(lastPacket) /\ NumberOfTokens(lastPacket) # 23)
        => (signals = <<"packetError">> /\ m_data = before /\ reads = {} /\ ~crashed)

\* A well-framed packet of fewer tokens was rejected while a decoded reading
\* was held.
C2_Witness ==
    /\ Decoding
    /\ ~FailsFrameValidation(lastPacket)
    /\ NumberOfTokens(lastPacket) < 23
    /\ signals = <<"packetError">>
    /\ m_data # EmptyDataPacket

(***************************************************************************)
(* C3.  A well-framed packet of 23 tokens whose checksum token is not the  *)
(* CRC-32 of the other tokens, each followed by the separator, makes       *)
(* parsePacket emit packetError and leaves the reading untouched.          *)
(***************************************************************************)
C3_ChecksumMismatchKeepsReading ==
    (/\ Decoding
     /\ ~FailsFrameValidation(lastPacket)
     /\ NumberOfTokens(lastPacket) = 23
     /\ ChecksumTokenWrong(lastPacket))
        => (signals = <<"packetError">> /\ m_data = before /\ ~crashed)

(***************************************************************************)
(* C4.  A frame of one token per member of FieldIndex, with the checksum   *)
(* of the sender and the trailer, is accepted: dataParsed is emitted and   *)
(* altitude(), teamId() and missionTime() return the values of its tokens. *)
(***************************************************************************)
C4_ValidFrameAccepted ==
    (Decoding /\ lastPacket \in ValidFrames)
        => /\ Emitted("dataParsed")
           /\ altitude(m_data) = StrToDouble(at(Tokenize(lastPacket), kAltitude))
           /\ altitude(m_data) = 1005
           /\ teamId(m_data) = 1
           /\ missionTime(m_data) = FrameTime(lastPacket)

(***************************************************************************)
(* C5.  Round trip: after a decode that emitted dataParsed, slot i of the  *)
(* reading holds the typed value of token i, and gpsVelocity(),            *)
(* gpsAltitude() and gpsLatitude() return the values of their own tokens.  *)
(***************************************************************************)
C5_RoundTrip ==
    (Decoding /\ Emitted("dataParsed"))
        => \A data \in {Tokenize(lastPacket)} :
               /\ \A i \in FieldIndex :
                     i < Len(data) => at(m_data, i) = Coerce(i, at(data, i))
               /\ gpsVelocity(m_data) = StrToDouble(at(data, kGpsVelocity))
               /\ gpsAltitude(m_data) = StrToDouble(at(data, kGpsAltitude))
               /\ gpsLatitude(m_data) = StrToDouble(at(data, kGpsLatitude))

(***************************************************************************)
(* C6.  No packet ends the process: every token position parsePacket reads *)
(* lies within the tokens of the packet, and each call ends with           *)
(* packetError or dataParsed.                                              *)
(***************************************************************************)
C6_ReadsWithinTokens ==
    /\ ~crashed
    /\ Decoding => /\ \A i \in reads : i < NumberOfTokens(lastPacket)
                   /\ Emitted("packetError") \/ Emitted("dataParsed")

(***************************************************************************)
(* C7.  After a valid frame with mission time T1, decoding a valid frame   *)
(* with mission time T2 < T1 emits satelliteReset and dataParsed and       *)
(* leaves missionTime() = T2.                                              *)
(***************************************************************************)
C7_ResetDetectedAndCommitted ==
    [][ (/\ Decoding
         /\ lastPacket \in ValidFrames
         /\ lastOp' = "parsePacket"
         /\ lastPacket' \in ValidFrames
         /\ U32Less(FrameTime(lastPacket'), FrameTime(lastPacket)))
            => (/\ \E k \in 1..Len(signals') : signals'[k] = "satelliteReset"
                /\ \E k \in 1..Len(signals') : signals'[k] = "dataParsed"
                /\ missionTime(m_data') = FrameTime(lastPacket')) ]_vars

C9_FixedSizeReading ==
    /\ Len(m_data) = Cardinality(FieldIndex)
    /\ Len(m_data) = Len(EmptyDataPacket)
    /\ Len(m_data) = Len(before)

(***************************************************************************)
(* C10, as stated.  The reading changes in a step if and only if the step  *)
(* is a decode that emits dataParsed.                                      *)
(***************************************************************************)
C10_ChangesIffDataParsed ==
    (m_data # before) <=> (Decoding /\ Emitted("dataParsed"))

(***************************************************************************)
(* C10, amended.  The reading is the initial one after construction; it    *)
(* changes in a step only if the step is a decode that emits dataParsed,   *)
(* and it is then the reading built from the tokens of that packet.        *)
(***************************************************************************)
C10_ChangesOnlyOnDataParsed ==
    /\ lastOp = "DataParser" => m_data = EmptyDataPacket
    /\ m_data # before => (Decoding /\ Emitted("dataParsed"))
    /\ (Decoding /\ Emitted("dataParsed"))
          => \E data \in {Tokenize(lastPacket)} :
                 \E r \in DataAt(data, kChecksumCode) :
                     r.ok /\ m_data = ExtractInfo(data, r.tok)

\* A successful decode replaced a reading that an earlier decode had left.
C10_Witness ==
    /\ Decoding
    /\ Emitted("dataParsed")
    /\ m_data # before
    /\ before # EmptyDataPacket

(***************************************************************************)
(* C11.  For a frame that passes the field-count check, the text whose     *)
(* CRC-32 is computed is every token but the last one, the checksum token, *)
(* in order, each followed by one separator.                               *)
(***************************************************************************)
C11_ChecksumInputExcludesChecksum ==
    (Decoding /\ ~FailsFrameValidation(lastPacket) /\ NumberOfTokens(lastPacket) = 23)
        => \E data \in {Tokenize(lastPacket)} :
               crcInput = WithSeparators(SubSeq(data, 1, Len(data) - 1))

(***************************************************************************)
(* C12.  A well-framed packet of 23 tokens whose checksum token, the last  *)
(* one, is not an unsigned 32-bit decimal number makes parsePacket emit    *)
(* packetError and leaves the reading untouched.                           *)
(***************************************************************************)
C12_UnparseableChecksumFails ==
    (/\ Decoding
     /\ ~FailsFrameValidation(lastPacket)
     /\ NumberOfTokens(lastPacket) = 23
     /\ \E data \in {Tokenize(lastPacket)} :
            \/ data[Len(data)] = <<>>
            \/ ~AllDigits(data[Len(data)])
            \/ Accumulate(U32(0), data[Len(data)]) = <<>>)
        => (signals = <<"packetError">> /\ m_data = before /\ ~crashed)

\* a < b for two decimal numbers written without leading zeros.
DecimalLess(a, b) ==
    \/ Len(a) < Len(b)
    \/ /\ Len(a) = Len(b)
       /\ \E k \in 1..Len(a) :
              /\ DigitVal(a[k]) < DigitVal(b[k])
              /\ \A j \in 1..(k - 1) : a[j] = b[j]

(***************************************************************************)
(* C13.  Mission time is a number of 64 bits: after a decode that emitted  *)
(* dataParsed, missionTime() is the number written in the mission time     *)
(* token, also for 2^32 and above, and satelliteReset was emitted only if  *)
(* that number is below the mission time held before.                      *)
(***************************************************************************)
C13_MissionTime64Bit ==
    (Decoding /\ Emitted("dataParsed"))
        => \E token \in {at(Tokenize(lastPacket), kMisionTime)} :
               /\ UIntText(missionTime(m_data)) = token
               /\ Emitted("satelliteReset")
                     => DecimalLess(token, UIntText(missionTime(before)))

(***************************************************************************)
(* C14.  enableCsvLogging(b) sets the flag to b, emits                     *)
(* csvLoggingEnabledChanged and leaves the reading as it was; no other     *)
(* call changes the flag; and what a decode emits, reads and leaves as     *)
(* reading is also an outcome of the same decode under the other value of  *)
(* the flag.                                                               *)
(***************************************************************************)
C14_LoggingFlagIndependent ==
    /\ [](lastOp = "enableCsvLogging"
             => /\ arg = <<m_csvLoggingEnabled>>
                /\ signals = <<"csvLoggingEnabledChanged">>
                /\ m_data = before
                /\ ~crashed)
    /\ [](Decoding
             => [data |-> m_data, signals |-> signals, reads |-> reads,
                 crashed |-> crashed, observed |-> observed]
                  \in DecodeResults(before, lastPacket, ~m_csvLoggingEnabled))
    /\ [][lastOp' # "enableCsvLogging"
             => m_csvLoggingEnabled' = m_csvLoggingEnabled]_vars

\* A packet was accepted, and the reading replaced, with logging enabled.
C14_Witness ==
    /\ Decoding
    /\ Emitted("dataParsed")
    /\ m_csvLoggingEnabled
    /\ m_data # before

\* How many times the last call emitted sig.
TimesEmitted(sig) == Cardinality({k \in 1..Len(signals) : signals[k] = sig})

(***************************************************************************)
(* C15.  Every decode emits exactly one terminal signal: one packetError   *)
(* and nothing else, or one dataParsed.  satelliteReset is emitted at most *)
(* once, only together with dataParsed and before it, while the reading is *)
(* still the previous one; at dataParsed the reading is the new one.       *)
(***************************************************************************)
C15_OneTerminalOutcome ==
    Decoding
        => /\ \/ signals = <<"packetError">>
              \/ TimesEmitted("dataParsed") = 1 /\ TimesEmitted("packetError") = 0
           /\ TimesEmitted("satelliteReset") <= 1
           /\ Emitted("satelliteReset") => Emitted("dataParsed")
           /\ \A k \in 1..Len(signals) :
                 /\ signals[k] = "satelliteReset"
                       => /\ observed[k] = before
                          /\ \E j \in (k + 1)..Len(signals) : signals[j] = "dataParsed"
                 /\ signals[k] = "dataParsed" => observed[k] = m_data

\* The slots the accessors read.
AccessorSlots ==
    {kTeamID, kPacketCount, kMisionTime, kAltitude, kBatteryVoltage, kInternalTemp,
     kExternalTemp, kAtmPressure, kGpsTime, kGpsVelocity, kGpsAltitude, kGpsLatitude,
     kGpsLongitude, kGpsSatelliteCount, kAccelerometerX, kAccelerometerY,
     kAccelerometerZ, kGyroscopeX, kGyroscopeY, kGyroscopeZ, kChecksumCode}

(***************************************************************************)
(* C16.  In every state, the initial one included, each slot an accessor   *)
(* reads lies within the current reading, so no accessor ends the process; *)
(* on the initial reading every accessor, checksum() included, returns     *)
(* zero.                                                                   *)
(***************************************************************************)
C16_AccessorsWithinReading ==
    /\ \A i \in AccessorSlots : i < Len(m_data)
    /\ lastOp \in (Accessors \ {"csvLoggingEnabled"}) \cup {"checksum"}
          => /\ ~crashed
             /\ before = EmptyDataPacket
                   => /\ ret # <<>>
                      /\ \A k \in 1..Len(ret) : ret[k].i = 0 /\ ret[k].u = U32(0)

====
